---- MODULE Spec2Model ----
(***************************************************************************)
(* Model of scripts/build_snomed_db.py: convert_to_sqlite(), the one-pass  *)
(* import of a tab-separated SNOMED description snapshot into a SQLite     *)
(* database holding the active descriptions.                               *)
(*                                                                         *)
(* The source file is the sequence of records csv.reader yields (record 1  *)
(* is the header); a record is the sequence of its fields.  Python index i *)
(* of a record is index i+1 here.  The destination is the file at          *)
(* DB_OUTPUT_PATH: absent, some other file, or a SQLite database with its  *)
(* schema objects and its committed rows.  Rows inserted through the       *)
(* connection stay in the connection's open transaction (txn) until        *)
(* conn.commit(): Python's sqlite3 opens a transaction implicitly before   *)
(* an INSERT, and runs CREATE TABLE / CREATE INDEX in autocommit mode.     *)
(***************************************************************************)
EXTENDS Integers, Sequences, FiniteSets, TLC

\* ---------------------------------------------------------------- bounds
\* Longest source, counted in data records (the header is extra).
MaxRows == 3
\* BATCH_SIZE is 10000 in the script; the model runs it at 1..MaxBatch.
MaxBatch == 2
\* The progress notice is printed every 100000 records in the script; the
\* model prints it every ProgressEvery records.
ProgressEvery == 2
\* Invocations of the script in a row, against the same destination path.
MaxRuns == 2

VARIABLES
    srcExists,   \* os.path.exists(SNOMED_DESC_PATH)
    source,      \* records of the source file, header first
    dest,        \* the file at DB_OUTPUT_PATH
    pc,          \* position of the run in convert_to_sqlite
    conn,        \* the sqlite3 connection: open?, rows of the open transaction
    fileOpen,    \* the source file handle f is open
    pos,         \* index in source of the record the loop handles next
    count,       \* local count
    batch,       \* local batch
    BATCH_SIZE,  \* local BATCH_SIZE
    stdout,      \* lines printed by this run
    retval,      \* what convert_to_sqlite returned (NotReturned before it does)
    runs         \* invocations started so far

vars == <<srcExists, source, dest, pc, conn, fileOpen, pos, count, batch,
          BATCH_SIZE, stdout, retval, runs>>

\* ------------------------------------------------------------ source data
\* A record of n fields with the given id (index 0), active flag (index 2),
\* conceptId (index 4) and term (index 7); the other fields are fillers.
Rec(n, id, flag, cid, term) ==
    [i \in 1..n |-> CASE i = 1 -> id
                      [] i = 2 -> "20250801"
                      [] i = 3 -> flag
                      [] i = 4 -> "module"
                      [] i = 5 -> cid
                      [] i = 6 -> "en"
                      [] i = 7 -> "type"
                      [] i = 8 -> term
                      [] OTHER -> "case"]

\* The data records a source is built from: active ones (with 9 and with
\* exactly 8 fields, one repeating an id), inactive ones (flag "0", empty,
\* another string), and short ones (7 fields and active, 4 fields and
\* inactive, 2 fields, a blank line).
DataRecords ==
    { Rec(9, "d1", "1", "c1", "t1"),
      Rec(8, "d2", "1", "c2", "t2"),
      Rec(9, "d3", "1", "c1", "t3"),
      Rec(9, "d1", "1", "c2", "t4"),
      Rec(9, "d4", "0", "c1", "t1"),
      Rec(8, "d5", "", "c2", "t2"),
      Rec(9, "d6", "10", "c1", "t3"),
      Rec(7, "d7", "1", "c1", "t1"),
      Rec(4, "d8", "0", "c1", "t1"),
      Rec(2, "d9", "1", "c1", "t1"),
      <<>> }

\* Header lines: the RF2 column names, and one that reads like an active
\* data record.
Headers ==
    { Rec(9, "id", "active", "conceptId", "term"),
      Rec(9, "d0", "1", "c0", "t0") }

RECURSIVE SeqsUpTo(_, _)
SeqsUpTo(S, n) ==
    IF n = 0 THEN {<<>>}
    ELSE LET shorter == SeqsUpTo(S, n - 1)
         IN  shorter \cup {Append(s, x) : s \in {t \in shorter : Len(t) = n - 1}, x \in S}

\* The source files: an empty file, or a header followed by up to MaxRows
\* data records.
Sources ==
    {<<>>} \cup {<<h>> \o d : h \in Headers, d \in SeqsUpTo(DataRecords, MaxRows)}

\* ------------------------------------------------------------ destination
Absent == [kind |-> "absent", schema |-> {}, rows |-> <<>>]
\* An unrelated file that was at the destination path.
OtherFile == [kind |-> "file", schema |-> {}, rows |-> <<>>]

\* A line on standard output: its text and the number it carries (0: none).
Message(text, n) == [text |-> text, n |-> n]

\* Python values a call can return, by type; NotReturned while it runs.
NotReturned == [type |-> "unset", value |-> 0]
PyNone == [type |-> "NoneType", value |-> 0]
PyInt(n) == [type |-> "int", value |-> n]

Init ==
    /\ srcExists \in BOOLEAN
    /\ source \in Sources
    /\ dest \in {Absent, OtherFile}
    /\ pc = "start"
    /\ conn = [open |-> FALSE, txn |-> <<>>]
    /\ fileOpen = FALSE
    /\ pos = 0
    /\ count = 0
    /\ batch = <<>>
    /\ BATCH_SIZE \in 1..MaxBatch
    /\ stdout = <<>>
    /\ retval = NotReturned
    /\ runs = 1

\* ------------------------------------------------- lines 14-18: the check
\* CheckSource with the old database removed before the source is looked for.
CheckSourceAfterRemove ==
    /\ pc = "start"
    /\ dest' = IF dest.kind # "absent" THEN Absent ELSE dest
    /\ IF ~srcExists
       THEN /\ stdout' = Append(stdout, Message("Error: Source file not found", 0))
            /\ retval' = PyNone
            /\ pc' = "returned"
       ELSE /\ stdout' = Append(stdout, Message("Creating SQLite DB", 0))
            /\ retval' = retval
            /\ pc' = "prepare"
    /\ UNCHANGED <<srcExists, source, conn, fileOpen, pos, count, batch,
                   BATCH_SIZE, runs>>

\* Lines 14-16: a missing source is reported and the call returns; line 18
\* otherwise.
CheckSource ==
    /\ pc = "start"
    /\ IF ~srcExists
       THEN /\ stdout' = Append(stdout, Message("Error: Source file not found", 0))
            /\ retval' = PyNone
            /\ pc' = "returned"
       ELSE /\ stdout' = Append(stdout, Message("Creating SQLite DB", 0))
            /\ retval' = retval
            /\ pc' = "prepare"
    /\ UNCHANGED <<srcExists, source, dest, conn, fileOpen, pos, count, batch,
                   BATCH_SIZE, runs>>

\* ------------------------------------- lines 20-46: destination and schema
\* RemoveExisting without the removal.
RemoveExistingKept(d) == d

\* Lines 21-22: whatever file is at the destination path is removed.
RemoveExisting(d) == IF d.kind # "absent" THEN Absent ELSE d

\* Line 24: sqlite3.connect creates the database when no file is there and
\* opens the file that is there otherwise.
Connect(d) == IF d.kind = "absent" THEN [kind |-> "db", schema |-> {}, rows |-> <<>>] ELSE d

\* Lines 29-40: CREATE TABLE and the two CREATE INDEX statements, each
\* committed as it is executed.
CreateSchema(d) ==
    [d EXCEPT !.schema = d.schema \cup {"descriptions", "idx_term", "idx_concept"}]

PrepareDestination ==
    /\ pc = "prepare"
    /\ dest' = CreateSchema(Connect(RemoveExisting(dest)))
    /\ conn' = [open |-> TRUE, txn |-> <<>>]
    /\ stdout' = Append(stdout, Message("Reading SNOMED file", 0))
    /\ count' = 0
    /\ batch' = <<>>
    /\ pc' = "open"
    /\ UNCHANGED <<srcExists, source, fileOpen, pos, BATCH_SIZE, retval, runs>>

\* --------------------------------------- lines 48-50: open, skip the header
\* next(reader) on an empty file raises StopIteration; the with statement
\* closes f as the exception leaves it.
OpenSource ==
    /\ pc = "open"
    /\ IF source = <<>>
       THEN /\ fileOpen' = FALSE
            /\ pos' = pos
            /\ pc' = "raised"
       ELSE /\ fileOpen' = TRUE
            /\ pos' = 2
            /\ pc' = "loop"
    /\ UNCHANGED <<srcExists, source, dest, conn, count, batch, BATCH_SIZE,
                   stdout, retval, runs>>

\* ------------------------------------------------ lines 52-63: the row loop
\* row[i] of the script: an IndexError unless the record has more than i fields.
Subscriptable(row, i) == i < Len(row)

\* Accepts with every flag but "0" taken as active.
AcceptsNotZero(row) == row[3] # "0"

\* Line 55.
Accepts(row) == row[3] = "1"

\* Project with the conceptId read one field too early.
ProjectShifted(row) == [id |-> row[1], conceptId |-> row[4], term |-> row[8], active |-> 1]

\* Line 56.
Project(row) == [id |-> row[1], conceptId |-> row[5], term |-> row[8], active |-> 1]

\* RowRaises with every record of fewer than 8 fields rejected.
RowRaisesStrict(row) == Len(row) < 8

\* Lines 55-56 raise IndexError: row[2] on a record of at most 2 fields, or
\* row[4] / row[7] on an accepted record of at most 7.
RowRaises(row) ==
    \/ ~Subscriptable(row, 2)
    \/ /\ Accepts(row)
       /\ ~(Subscriptable(row, 0) /\ Subscriptable(row, 4) /\ Subscriptable(row, 7))

\* AfterRow with the count incremented for every record.
AfterRowCountAll(row, b, c) ==
    IF Accepts(row)
    THEN [batch |-> Append(b, Project(row)), count |-> c + 1]
    ELSE [batch |-> b, count |-> c + 1]

\* Lines 55-57: batch and count after a record that did not raise.
AfterRow(row, b, c) ==
    IF Accepts(row)
    THEN [batch |-> Append(b, Project(row)), count |-> c + 1]
    ELSE [batch |-> b, count |-> c]

\* NeedFlush with > for >=.
NeedFlushLate(b, size) == Len(b) > size

\* Line 59.
NeedFlush(b, size) == Len(b) >= size

\* The ids the table holds as the connection sees it: the committed rows and
\* those of its open transaction.
IdsOf(rows) == {rows[i].id : i \in 1..Len(rows)}

\* cursor.executemany(INSERT ..., rows): the rows are inserted one by one into
\* the connection's transaction; a row whose id the table already holds
\* violates the PRIMARY KEY and raises IntegrityError, the rows before it stay
\* in the transaction.  Nothing is committed.
RECURSIVE InsertEach(_, _, _)
InsertEach(txn, committed, rows) ==
    IF rows = <<>> THEN [txn |-> txn, raised |-> FALSE]
    ELSE IF Head(rows).id \in IdsOf(committed) \cup IdsOf(txn)
         THEN [txn |-> txn, raised |-> TRUE]
         ELSE InsertEach(Append(txn, Head(rows)), committed, Tail(rows))

\* executemany on a connection that commits each statement as it runs.
executemanyAutocommit(c, d, rows) ==
    LET r == InsertEach(<<>>, d.rows \o c.txn, rows)
    IN  [conn |-> [c EXCEPT !.txn = <<>>],
         dest |-> [d EXCEPT !.rows = d.rows \o c.txn \o r.txn],
         raised |-> r.raised]

\* Lines 60 and 67.
executemany(c, d, rows) ==
    LET r == InsertEach(c.txn, d.rows, rows)
    IN  [conn |-> [c EXCEPT !.txn = r.txn], dest |-> d, raised |-> r.raised]

\* Lines 62-63.
Progress(out, c) ==
    IF c % ProgressEvery = 0 THEN Append(out, Message("Processed rows", c)) ELSE out

\* One iteration of the for loop on source[pos].  An exception leaves the
\* with block, which closes f, and then leaves convert_to_sqlite; pos stays
\* at the record that raised.
LoopBody ==
    /\ pc = "loop"
    /\ pos <= Len(source)
    /\ LET row == source[pos] IN
       IF RowRaises(row)
       THEN /\ pc' = "raised"
            /\ fileOpen' = FALSE
            /\ UNCHANGED <<dest, conn, pos, count, batch, stdout>>
       ELSE LET a == AfterRow(row, batch, count) IN
            IF NeedFlush(a.batch, BATCH_SIZE)
            THEN LET r == executemany(conn, dest, a.batch) IN
                 /\ conn' = r.conn
                 /\ dest' = r.dest
                 /\ count' = a.count
                 /\ IF r.raised
                    THEN /\ pc' = "raised"
                         /\ fileOpen' = FALSE
                         /\ batch' = a.batch
                         /\ UNCHANGED <<pos, stdout>>
                    ELSE /\ pc' = "loop"
                         /\ fileOpen' = fileOpen
                         /\ batch' = <<>>
                         /\ pos' = pos + 1
                         /\ stdout' = Progress(stdout, a.count)
            ELSE /\ batch' = a.batch
                 /\ count' = a.count
                 /\ pos' = pos + 1
                 /\ UNCHANGED <<dest, conn, pc, fileOpen, stdout>>
    /\ UNCHANGED <<srcExists, source, BATCH_SIZE, retval, runs>>

\* ------------------------------------- lines 65-67: insert the remaining rows
\* InsertRemaining with the last partial batch left out.
InsertRemainingDropped(c, d, b) == [conn |-> c, dest |-> d, raised |-> FALSE]

\* Lines 66-67.
InsertRemaining(c, d, b) ==
    IF b # <<>> THEN executemany(c, d, b) ELSE [conn |-> c, dest |-> d, raised |-> FALSE]

\* The reader is exhausted: the last partial batch is inserted and the with
\* block closes f.
ExitLoop ==
    /\ pc = "loop"
    /\ pos > Len(source)
    /\ LET r == InsertRemaining(conn, dest, batch) IN
       /\ conn' = r.conn
       /\ dest' = r.dest
       /\ pc' = IF r.raised THEN "raised" ELSE "commit"
    /\ fileOpen' = FALSE
    /\ UNCHANGED <<srcExists, source, pos, count, batch, BATCH_SIZE, stdout,
                   retval, runs>>

\* ---------------------------------------------------- line 69: conn.commit()
Commit ==
    /\ pc = "commit"
    /\ dest' = [dest EXCEPT !.rows = dest.rows \o conn.txn]
    /\ conn' = [conn EXCEPT !.txn = <<>>]
    /\ pc' = "close"
    /\ UNCHANGED <<srcExists, source, fileOpen, pos, count, batch, BATCH_SIZE,
                   stdout, retval, runs>>

\* ------------------------- lines 70-71: conn.close(), the notice, the return
CloseAndReport ==
    /\ pc = "close"
    /\ conn' = [conn EXCEPT !.open = FALSE]
    /\ stdout' = Append(stdout, Message("Done! Imported active descriptions", count))
    /\ retval' = PyNone
    /\ pc' = "done"
    /\ UNCHANGED <<srcExists, source, dest, fileOpen, pos, count, batch,
                   BATCH_SIZE, runs>>

\* ------------------------------------------------ lines 73-74: the script
\* An exception that left convert_to_sqlite ends the script.  The connection
\* is closed as the interpreter discards it, and SQLite rolls its open
\* transaction back.
ProcessExit ==
    /\ pc = "raised"
    /\ conn' = [open |-> FALSE, txn |-> <<>>]
    /\ pc' = "exited"
    /\ UNCHANGED <<srcExists, source, dest, fileOpen, pos, count, batch,
                   BATCH_SIZE, stdout, retval, runs>>

\* The script is run again on the same source file, which may have been
\* removed or put back in the meantime; the destination path keeps whatever
\* the earlier run left there.
Rerun ==
    /\ pc \in {"returned", "done", "exited"}
    /\ runs < MaxRuns
    /\ runs' = runs + 1
    /\ srcExists' \in BOOLEAN
    /\ pc' = "start"
    /\ fileOpen' = FALSE
    /\ pos' = 0
    /\ count' = 0
    /\ batch' = <<>>
    /\ stdout' = <<>>
    /\ retval' = NotReturned
    /\ UNCHANGED <<source, dest, conn, BATCH_SIZE>>

Next ==
    \/ CheckSource
    \/ PrepareDestination
    \/ OpenSource
    \/ LoopBody
    \/ ExitLoop
    \/ Commit
    \/ CloseAndReport
    \/ ProcessExit
    \/ Rerun

Spec == Init /\ [][Next]_vars

\* ================================================================ properties
\* What the properties say of the source, read off the source file itself.
DataIndexes == 2..Len(source)
FlagIsOne(r) == Len(r) >= 3 /\ r[3] = "1"
ActiveIndexes == {i \in DataIndexes : FlagIsOne(source[i])}
ProjectionOf(r) == [id |-> r[1], conceptId |-> r[5], term |-> r[8], active |-> 1]
Range(seq) == {seq[k] : k \in 1..Len(seq)}
SchemaObjects == {"descriptions", "idx_term", "idx_concept"}

\* The projections of the active records among source[2..n], in source order.
ActiveRowsUpTo(n) ==
    LET act == SelectSeq(SubSeq(source, 2, n), FlagIsOne)
    IN  [k \in 1..Len(act) |-> ProjectionOf(act[k])]

\* C1: when convert_to_sqlite finishes, the descriptions table holds as many
\* rows as the source has data records whose field 2 is exactly "1".
C1_RowCountIsActiveCount ==
    pc = "done" =>
        /\ "descriptions" \in dest.schema
        /\ Len(dest.rows) = Cardinality(ActiveIndexes)

\* The scenario of flags 1, 0, 1 (and the other flags that are not "1").
C1_Witness ==
    /\ pc = "done"
    /\ Len(source) = 4
    /\ source[2][3] = "1" /\ source[3][3] \in {"0", "", "10"} /\ source[4][3] = "1"
    /\ Len(dest.rows) = 2

\* C2: every row written to the descriptions table, committed or not, is the
\* projection (field 0, field 4, field 7, 1) of a data record of the source
\* whose field 2 is "1"; the header is never one of them.
C2_RowsAreProjections ==
    \A row \in Range(dest.rows) \cup Range(conn.txn) :
        /\ row.active = 1
        /\ \E i \in DataIndexes :
              /\ FlagIsOne(source[i])
              /\ Len(source[i]) >= 8
              /\ row.id = source[i][1]
              /\ row.conceptId = source[i][5]
              /\ row.term = source[i][8]

\* A finished import of a source whose header reads like an active record.
C2_Witness ==
    /\ pc = "done"
    /\ source[1][3] = "1"
    /\ Len(dest.rows) >= 2

\* C3: with the source missing, the run reports it and returns, and the
\* destination is left as it was, whether it existed or not.
C3_MissingSourceLeavesDestination ==
    /\ [](pc = "returned" =>
            stdout = <<Message("Error: Source file not found", 0)>>)
    /\ [][~srcExists => (dest' = dest /\ pc' \in {"start", "returned"})]_vars

\* A run that found no source, after one that had built a database.
C3_Witness ==
    /\ pc = "returned"
    /\ dest.kind = "db"
    /\ dest.rows # <<>>

\* C4: after a successful import the destination is the schema and the
\* filtered rows of the source, whatever was at the path before.
C4_DestinationDependsOnSourceOnly ==
    pc = "done" =>
        dest = [kind |-> "db", schema |-> SchemaObjects,
                rows |-> ActiveRowsUpTo(Len(source))]

\* The second import in a row, finished.
C4_Witness ==
    /\ pc = "done"
    /\ runs = 2
    /\ dest.rows # <<>>

\* The table after an import that inserts each accepted record at once.
RECURSIVE ImmediateImport(_, _)
ImmediateImport(table, records) ==
    IF records = <<>> THEN table
    ELSE ImmediateImport(
             IF FlagIsOne(Head(records))
             THEN table \cup {ProjectionOf(Head(records))}
             ELSE table,
             Tail(records))

\* C5: a completed import persists, for every BATCH_SIZE, the set of rows an
\* import of threshold 1 persists; the last partial batch is not lost.
C5_BatchingIsTransparent ==
    pc = "done" =>
        /\ Range(dest.rows) = ImmediateImport({}, SubSeq(source, 2, Len(source)))
        /\ Len(dest.rows) = Cardinality(Range(dest.rows))

\* Three accepted records under a threshold of 2: one full batch and a
\* partial one.
C5_Witness ==
    /\ pc = "done"
    /\ BATCH_SIZE = 2
    /\ count = 3
    /\ Len(dest.rows) = 3

\* C6 as stated: a successful call returns the count of accepted records.
C6_ReturnsCount ==
    pc = "done" => retval = PyInt(Cardinality(ActiveIndexes))

\* C6, amended: a successful call prints the count of accepted records in its
\* last line and returns None; a call that finds no source prints the error
\* and returns None too.
C6_PrintsCountReturnsNone ==
    /\ pc = "done" =>
          /\ retval = PyNone
          /\ stdout[Len(stdout)] =
                Message("Done! Imported active descriptions", Cardinality(ActiveIndexes))
    /\ pc = "returned" =>
          /\ retval = PyNone
          /\ stdout[Len(stdout)] = Message("Error: Source file not found", 0)

\* A finished import that accepted some records and dropped others.
C6_Witness ==
    /\ pc = "done"
    /\ count = 2
    /\ Len(source) = 4

\* C7 as stated: no data record of fewer than 8 fields is ever passed by.
C7_ShortRecordAlwaysFatal ==
    \A i \in DataIndexes : i < pos => Len(source[i]) >= 8

\* The short records the loop fails on, and those it passes by.
ShortFatal(r) == Len(r) < 3 \/ (Len(r) < 8 /\ r[3] = "1")
ShortSkipped(r) == Len(r) >= 3 /\ Len(r) < 8 /\ r[3] # "1"

\* C7, amended: a record of fewer than 3 fields, or of fewer than 8 whose
\* flag is "1", fails the import at that record, which then never commits; a
\* record of 3 to 7 fields whose flag is not "1" is skipped and the loop goes on.
C7_ShortRecordFatalUnlessInactive ==
    /\ [](pc \in {"commit", "close", "done"} =>
            \A i \in DataIndexes : ~ShortFatal(source[i]))
    /\ [][(pc = "loop" /\ pos <= Len(source)) =>
            /\ ShortFatal(source[pos]) => (pc' = "raised" /\ pos' = pos)
            /\ ShortSkipped(source[pos]) =>
                  (pc' = "loop" /\ pos' = pos + 1 /\ count' = count /\ batch' = batch)
         ]_vars

\* A finished import of a source with a 4-field inactive record.
C7_Witness ==
    /\ pc = "done"
    /\ \E i \in DataIndexes : ShortSkipped(source[i])
    /\ dest.rows # <<>>

\* The rows handed to the store before the run failed.
Flushed == count - Len(batch)

\* C8 as stated: a run that fails after a full batch was flushed leaves the
\* rows of that batch in the destination.
C8_FlushedBatchesSurviveFailure ==
    (pc \in {"raised", "exited"} /\ Flushed >= BATCH_SIZE) => dest.rows # <<>>

\* C8, amended: a run that fails, also after full batches were flushed, leaves
\* the schema and no row in the destination: the flushed rows were never
\* committed and are rolled back.
C8_FailedRunLeavesNoRows ==
    /\ pc \in {"raised", "exited"} =>
          dest = [kind |-> "db", schema |-> SchemaObjects, rows |-> <<>>]
    /\ pc = "exited" => conn.txn = <<>>

\* A run that failed after it had flushed a full batch.
C8_Witness ==
    /\ pc = "exited"
    /\ Flushed >= BATCH_SIZE
    /\ Flushed > 0
    /\ dest.rows = <<>>

\* C9: when convert_to_sqlite has been left, by return or by exception, the
\* source file and the connection are closed.
C9_ResourcesReleasedOnExit ==
    pc \in {"returned", "done", "raised"} => (~fileOpen /\ ~conn.open)

\* C10: after every iteration the pending batch is shorter than BATCH_SIZE,
\* the rows handed to the store and the pending ones are count in number and
\* are the accepted records so far, once each and in source order; an
\* iteration flushes exactly when count reaches a multiple of BATCH_SIZE.
C10_LoopInvariant ==
    /\ [](pc = "loop" =>
            /\ Len(batch) < BATCH_SIZE
            /\ Len(conn.txn) + Len(batch) = count
            /\ conn.txn \o batch = ActiveRowsUpTo(pos - 1))
    /\ [][(pc = "loop" /\ pc' = "loop") =>
            ((Len(conn'.txn) > Len(conn.txn)) <=>
             (count' > count /\ count' % BATCH_SIZE = 0))]_vars

\* The loop after a flush and one more accepted record.
C10_Witness ==
    /\ pc = "loop"
    /\ BATCH_SIZE = 2
    /\ Len(conn.txn) = 2
    /\ Len(batch) = 1
====
